---------------------------- MODULE Spec2Model ----------------------------
(***************************************************************************)
(* Model of the upload coordinator of merlin/api/uploads.py                *)
(* (UploadsMixin.multipart_upload and UploadsMixin.add_upload_part) over   *)
(* an abstract transport (self._http.post), which answers each request     *)
(* with a parsed JSON object or raises.                                    *)
(*                                                                         *)
(* Sizes are counted in units of 2 MiB, so that 64 MiB is 32 units and     *)
(* 150 MiB is 75 units.  The bytes of a source are modelled by their       *)
(* offsets 1..len, so that a dropped, repeated or reordered byte shows.    *)
(*                                                                         *)
(* Further down: the stream event decoder of                               *)
(* merlin/api/responses/streaming_events.py (DecodeSpec, StreamSpec) and   *)
(* the request builders that take **extra (BuildSpec).                     *)
(***************************************************************************)
EXTENDS Integers, Sequences, FiniteSets, TLC

\* ------------------------------------------------------------------ bounds
\* Longest source of the small inputs, in units.
MaxLen == 3
\* The transport names parts with IDs 1..MaxId (it may repeat an ID).
MaxId == 2
\* Longest stream of raw events decoded one after another.
MaxEvents == 3

\* ------------------------------------------------- program constants
\* part_size: int = 64 * 1024 * 1024 (uploads.py:287), in units of 2 MiB.
DEFAULT_PART_SIZE == 32
\* "Each part must be <= 64 MB" (uploads.py:231), in units of 2 MiB.
PART_CEILING == 32
\* The 150 MiB source of the end-to-end scenario, in units of 2 MiB.
ScenarioLen == 75

VARIABLES
    call,       \* the public method called
    upload,     \* the provider's record of the upload named by upload_id when
                \* the call is made: [status, parts]
    data,       \* the raw event object given to StreamEvent.from_dict
    kwargs,     \* the keyword arguments of a request-building call, as the
                \* caller wrote them: [named, spread] (name=value and **mapping)
    raw_id,     \* the object the raw field of the decoded event refers to
    file,       \* the FileLike argument (file= or data=), as given by the caller
    part_size,  \* the part_size argument of multipart_upload
    pc,         \* position of the call
    size,       \* local `size` of multipart_upload
    fobj,       \* local `fobj`: the binary handle being read
    chunk,      \* local `chunk` of the loop
    part_ids,   \* local `part_ids`
    trace,      \* requests issued, responses received and reads done, in order
    result,     \* what the call returned or raised
    ownOpen     \* number of handles the coordinator opened itself and has not closed

vars == <<call, upload, data, kwargs, raw_id, file, part_size, pc, size, fobj, chunk, part_ids, trace, result, ownOpen>>

\* ----------------------------------------------------------- the inputs
\* Kinds of FileLike argument:
\*   path         str / Path naming an existing file
\*   nopath       str / Path naming no file
\*   bytes        bytes / bytearray
\*   handle_fd    open binary handle with a usable file descriptor
\*   handle_nofd  open binary seekable handle without one (io.BytesIO)
\*   text_fd      handle with a descriptor whose read() returns str
\*   text_nofd    handle without a descriptor whose read() returns str
\*   untyped      a value that is neither (an int)
Kinds == {"path", "nopath", "bytes", "handle_fd", "handle_nofd",
          "text_fd", "text_nofd", "untyped"}
HandleKinds == {"handle_fd", "handle_nofd", "text_fd", "text_nofd"}
TextKinds == {"text_fd", "text_nofd"}
PathKinds == {"path", "nopath"}
ByteKinds == {"path", "bytes", "handle_fd", "handle_nofd"}

\* The methods of UploadsMixin a caller calls.
Calls == {"multipart_upload", "add_upload_part", "complete_upload", "cancel_upload"}
\* The methods that take the upload_id of an existing upload.
DirectCalls == Calls \ {"multipart_upload"}

\* The provider's record of an upload: its status and the number of parts
\* added to it.  multipart_upload names no upload: it creates one.
NoUpload == [status |-> "none", parts |-> 0]
UploadStates == [status : {"pending", "completed", "cancelled"}, parts : 0..1]
TerminalStatus == {"completed", "cancelled"}

\* The provider acts on an upload that is not terminal and answers a request
\* on a completed or cancelled one with an error status.
ProviderAccepts == upload.status \notin TerminalStatus

\* The status of the upload object the provider answers a request with.
ProviderStatus(o) ==
    IF o = "create" THEN "pending"
    ELSE IF o = "complete" THEN "completed"
    ELSE "cancelled"

\* A cancelled upload has no nested file: the provider leaves the key out or
\* sets it to null.
CancelFileShapes == {"absent", "null"}

\* A FileLike value is [kind, len, pos, off]: len units of content, the read
\* position pos of a handle, and off, the offset of its first unit in the
\* caller's source (0 for the caller's argument; a chunk read at offset k of
\* the source has off = k).
Content(h) == [i \in 1..h.len |-> h.off + i]

Min(a, b) == IF a < b THEN a ELSE b

\* Errors the transport raises (network error, non-2xx status).
TransportErrors == {"ConnectError", "HTTPStatusError"}

\* Shapes of the "file" member of an upload object answered by the transport.
FileShapes == {"absent", "null", "empty", "valid", "malformed"}

NoChunk == [bin |-> TRUE, body |-> <<>>]
NoFobj == [kind |-> "none", len |-> 0, pos |-> 0, off |-> 0, bin |-> TRUE]
NoResult == [kind |-> "none"]
Raise(e) == [kind |-> "raise", err |-> e]

\* ------------------------------------------------------------- helpers
\* hasattr(file, "read")
HasRead(f) == f.kind \in HandleKinds

\* Mutant of CoerceFile: data above the ceiling is rejected.
CoerceFileCapped(f) ==
    IF f.kind = "untyped" \/ f.len - f.pos > PART_CEILING
    THEN [ok |-> FALSE, err |-> "TypeError"]
    ELSE IF f.kind = "nopath" THEN [ok |-> FALSE, err |-> "OSError"]
    ELSE [ok |-> TRUE, own |-> f.kind = "path",
          fobj |-> [kind |-> f.kind, len |-> f.len, pos |-> f.pos, off |-> f.off,
                    bin |-> f.kind \notin TextKinds]]

\* UploadsMixin._coerce_file: the handle to read, or the error raised.
CoerceFile(f) ==
    IF HasRead(f)
    THEN [ok |-> TRUE, own |-> FALSE,
          fobj |-> [kind |-> f.kind, len |-> f.len, pos |-> f.pos, off |-> f.off,
                    bin |-> f.kind \notin TextKinds]]
    ELSE IF f.kind = "path"
    THEN [ok |-> TRUE, own |-> TRUE,
          fobj |-> [kind |-> "file", len |-> f.len, pos |-> 0, off |-> f.off,
                    bin |-> TRUE]]
    ELSE IF f.kind = "nopath"
    THEN [ok |-> FALSE, err |-> "OSError"]
    ELSE IF f.kind = "bytes"
    THEN [ok |-> TRUE, own |-> FALSE,
          fobj |-> [kind |-> "BytesIO", len |-> f.len, pos |-> 0, off |-> f.off,
                    bin |-> TRUE]]
    ELSE [ok |-> FALSE, err |-> "TypeError"]

\* Mutant of InferSize: a handle is measured by reading it, file descriptor
\* or not.
InferSizeReadFirst(f) ==
    IF f.kind = "path"
    THEN [ok |-> TRUE, how |-> "stat", size |-> f.len, pos |-> f.pos]
    ELSE IF f.kind = "nopath" THEN [ok |-> FALSE, how |-> "stat", err |-> "OSError"]
    ELSE IF f.kind = "bytes"
    THEN [ok |-> TRUE, how |-> "len", size |-> f.len, pos |-> f.pos]
    ELSE IF f.kind \in {"handle_fd", "handle_nofd"}
    THEN [ok |-> TRUE, how |-> "read", size |-> f.len - f.pos, pos |-> 0]
    ELSE IF f.kind \in TextKinds THEN [ok |-> FALSE, how |-> "read", err |-> "TypeError"]
    ELSE [ok |-> FALSE, how |-> "none", err |-> "TypeError"]

\* UploadsMixin._infer_size: the size, how it was measured (os.path.getsize,
\* len, os.fstat, or reading the handle to its end), and the read position it
\* leaves the handle at, or the error raised.
InferSize(f) ==
    IF f.kind = "path"
    THEN [ok |-> TRUE, how |-> "stat", size |-> f.len, pos |-> f.pos]
    ELSE IF f.kind = "nopath" THEN [ok |-> FALSE, how |-> "stat", err |-> "OSError"]
    ELSE IF f.kind = "bytes"
    THEN [ok |-> TRUE, how |-> "len", size |-> f.len, pos |-> f.pos]
    ELSE IF f.kind \in {"handle_fd", "text_fd"}                   \* os.fstat
    THEN [ok |-> TRUE, how |-> "fstat", size |-> f.len, pos |-> f.pos]
    ELSE IF f.kind = "handle_nofd"                               \* read(); seek(0)
    THEN [ok |-> TRUE, how |-> "read", size |-> f.len - f.pos, pos |-> 0]
    ELSE IF f.kind = "text_nofd" THEN [ok |-> FALSE, how |-> "read", err |-> "TypeError"]
    ELSE [ok |-> FALSE, how |-> "none", err |-> "TypeError"]

\* Mutant of ReadCount: the size argument is ignored.
ReadCountAll(h, n) == h.len - h.pos

\* Mutant of ReadCount: read(0) reads everything, as read(-1) does.
ReadCountZeroAll(h, n) == IF n <= 0 THEN h.len - h.pos ELSE Min(n, h.len - h.pos)

\* Number of units fobj.read(n) returns: everything left for n < 0, else n
\* units or what is left when less is left (io.BufferedIOBase.read, which the
\* handles opened at lines 135 and 139 implement; caller handles are taken to
\* be binary files of the same kind).
ReadCount(h, n) == IF n < 0 THEN h.len - h.pos ELSE Min(n, h.len - h.pos)

\* fobj.read(n): the units returned.
Read(h, n) ==
    [bin |-> h.bin, body |-> SubSeq(Content(h), h.pos + 1, h.pos + ReadCount(h, n))]

\* Everything a handle still holds: what the transport streams from it.
Rest(h) == Read(h, -1)

\* The chunk as the data= argument of add_upload_part (line 326).  A bytes
\* chunk is bytes.  A str chunk is taken by _coerce_file for a path (line
\* 134): it names no file, or it names some file of the machine, whose
\* content (one unit, numbered 0) is not the caller's.
ChunkArgs(c, at) ==
    IF c.bin
    THEN {[kind |-> "bytes", len |-> Len(c.body), pos |-> 0, off |-> at]}
    ELSE {[kind |-> "nopath", len |-> 0, pos |-> 0, off |-> 0],
          [kind |-> "path", len |-> 1, pos |-> 0, off |-> -1]}

\* The form data of an add-part request (lines 238-241): the handle, whose
\* remaining content the transport sends.
PartData(h) == [src |-> h.kind, bin |-> h.bin, body |-> Rest(h).body]

\* Mutant of LoopEnds: the emptiness test is skipped until a part was sent.
LoopEndsAfterPart(c) ==
    /\ Len(c.body) = 0
    /\ \E i \in DOMAIN trace : trace[i].ev = "req" /\ trace[i].op = "part"

\* Mutant of LoopEnds: a short chunk ends the loop too, and is not sent.
LoopEndsShort(c) == Len(c.body) = 0 \/ (part_size > 0 /\ Len(c.body) < part_size)

\* Line 324, `if not chunk: break`: the chunk that ends the loop.
LoopEnds(c) == Len(c.body) = 0

\* Mutant of Collect: the ID is put in front.
CollectFront(ids, id) == <<id>> \o ids

\* Line 327, part_ids.append(part.id).
Collect(ids, id) == Append(ids, id)

\* Mutant of CompleteBody: the IDs are sent in ascending order.
CompleteBodySorted(ids) ==
    [i \in 1..Len(ids) |->
        CHOOSE v \in {ids[j] : j \in 1..Len(ids)} :
            /\ Cardinality({j \in 1..Len(ids) : ids[j] <= v}) >= i
            /\ Cardinality({j \in 1..Len(ids) : ids[j] < v}) < i]

\* Line 259, body = {"part_ids": part_ids}: the list sent (md5, lines
\* 260-261, is not modelled).
CompleteBody(ids) == ids

\* --------------------------------------------------------- trace events
\* A "req" event is a call of self._http.post; a "resp" event is its return
\* (ok) or the exception it raises (not ok).
ReqCreate(n) == [ev |-> "req", op |-> "create", bytes |-> n]
ReqPart(d) == [ev |-> "req", op |-> "part", data |-> d]
ReqComplete(ids) == [ev |-> "req", op |-> "complete", part_ids |-> ids]
RespFail(o, e) == [ev |-> "resp", op |-> o, ok |-> FALSE, err |-> e]
ReqCancel == [ev |-> "req", op |-> "cancel"]
RespUpload(o, wf, fs, fid) ==
    [ev |-> "resp", op |-> o, ok |-> TRUE, wellformed |-> wf,
     status |-> ProviderStatus(o), file |-> [shape |-> fs, id |-> fid]]
\* _infer_size measured the source: how, and the size found.
EvInfer(s) == [ev |-> "infer", op |-> s.how, size |-> IF s.ok THEN s.size ELSE 0]
RespPart(wf, id) ==
    [ev |-> "resp", op |-> "part", ok |-> TRUE, wellformed |-> wf, id |-> id]
EvRead(n, c) == [ev |-> "read", op |-> "read", n |-> n, got |-> Len(c.body)]

\* ----------------------------------------------------------------- Init
SmallInputs ==
    {[kind |-> k, len |-> n, pos |-> p, off |-> 0] :
        k \in Kinds, n \in 0..MaxLen, p \in 0..MaxLen}
ScenarioInputs ==
    {[kind |-> k, len |-> ScenarioLen, pos |-> 0, off |-> 0] : k \in ByteKinds}
\* The file argument of a call that takes none.
NoFile == [kind |-> "untyped", len |-> 0, pos |-> 0, off |-> 0]
\* The part_ids argument of complete_upload: any list of IDs.
IdLists == UNION {[1..n -> 1..MaxId] : n \in 0..MaxLen}
\* The raw event of a call that decodes none.
NoData == <<>>
NoKwargs == [named |-> <<>>, spread |-> <<>>]

\* The arguments of multipart_upload and add_upload_part.
FileInit ==
    /\ call \in {"multipart_upload", "add_upload_part"}
    /\ \/ /\ file \in {f \in SmallInputs :
                        /\ f.pos <= f.len
                        /\ f.kind \notin HandleKinds => f.pos = 0}
          /\ part_size \in (-1..MaxLen) \cup {DEFAULT_PART_SIZE}
       \/ /\ file \in ScenarioInputs
          /\ part_size \in {-1, DEFAULT_PART_SIZE, DEFAULT_PART_SIZE + 1}
    /\ call = "add_upload_part" => part_size = DEFAULT_PART_SIZE
    /\ part_ids = <<>>

\* The arguments of complete_upload and cancel_upload.
IdInit ==
    /\ call \in {"complete_upload", "cancel_upload"}
    /\ file = NoFile
    /\ part_size = DEFAULT_PART_SIZE
    /\ part_ids \in IF call = "complete_upload" THEN IdLists ELSE {<<>>}

Init ==
    /\ (FileInit \/ IdInit)
    /\ upload \in IF call = "multipart_upload" THEN {NoUpload} ELSE UploadStates
    /\ data = NoData
    /\ kwargs = NoKwargs
    /\ raw_id = "none"
    /\ pc = "start"
    /\ size = 0
    /\ fobj = NoFobj
    /\ chunk = NoChunk
    /\ trace = <<>>
    /\ result = NoResult
    /\ ownOpen = 0

\* -------------------------------------------------- multipart_upload
\* Lines 302-309: infer the size, coerce the source.
MU_Begin ==
    /\ call = "multipart_upload"
    /\ pc = "start"
    /\ LET s == InferSize(file)
           f == [file EXCEPT !.pos = IF s.ok THEN s.pos ELSE file.pos]
           c == CoerceFile(f)
       IN  /\ trace' = IF s.how = "none" THEN trace ELSE Append(trace, EvInfer(s))
           /\ IF ~s.ok
              THEN /\ pc' = "raised"
                   /\ result' = Raise(s.err)
                   /\ UNCHANGED <<size, fobj, ownOpen>>
              ELSE IF ~c.ok
              THEN /\ pc' = "raised"
                   /\ result' = Raise(c.err)
                   /\ size' = s.size
                   /\ UNCHANGED <<fobj, ownOpen>>
              ELSE /\ pc' = "create"
                   /\ size' = s.size
                   /\ fobj' = c.fobj
                   /\ ownOpen' = IF c.own THEN ownOpen + 1 ELSE ownOpen
                   /\ UNCHANGED result
    /\ UNCHANGED <<call, upload, data, kwargs, raw_id, file, part_size, chunk, part_ids>>

\* Mutant of MU_CreateSend: the loop starts without the create request.
MU_CreateSend_Skip ==
    /\ pc = "create"
    /\ pc' = "read"
    /\ UNCHANGED <<call, upload, data, kwargs, raw_id, file, part_size, size, fobj, chunk, part_ids, trace, result,
                   ownOpen>>

\* Lines 312-318 and 207-219: the create request is issued.
MU_CreateSend ==
    /\ pc = "create"
    /\ trace' = Append(trace, ReqCreate(size))
    /\ pc' = "create_wait"
    /\ UNCHANGED <<call, upload, data, kwargs, raw_id, file, part_size, size, fobj, chunk, part_ids, result, ownOpen>>

\* Lines 216-220: the transport answers the create request, or raises.
CreateReply ==
    /\ pc = "create_wait"
    /\ \/ \E e \in TransportErrors :
            /\ trace' = Append(trace, RespFail("create", e))
            /\ pc' = "raised"
            /\ result' = Raise(e)
       \/ \E wf \in BOOLEAN :
            /\ trace' = Append(trace, RespUpload("create", wf, "absent", 0))
            /\ IF wf
               THEN pc' = "read" /\ UNCHANGED result
               ELSE pc' = "raised" /\ result' = Raise("KeyError")
    /\ UNCHANGED <<call, upload, data, kwargs, raw_id, file, part_size, size, fobj, chunk, part_ids, ownOpen>>

\* Lines 322-325: read the next chunk; an empty one ends the loop.
MU_ReadChunk ==
    /\ pc = "read"
    /\ LET c == Read(fobj, part_size)
       IN  /\ chunk' = c
           /\ fobj' = [fobj EXCEPT !.pos = fobj.pos + Len(c.body)]
           /\ trace' = Append(trace, EvRead(part_size, c))
           /\ pc' = IF LoopEnds(c) THEN "complete" ELSE "addpart"
    /\ UNCHANGED <<call, upload, data, kwargs, raw_id, file, part_size, size, part_ids, result, ownOpen>>

\* Mutant of MU_AddPartSend: the loop goes on without waiting for the answer.
MU_AddPartSend_Async ==
    /\ pc = "addpart"
    /\ trace' = Append(trace, ReqPart([src |-> "bytes", bin |-> chunk.bin,
                                       body |-> chunk.body]))
    /\ pc' = "read"
    /\ UNCHANGED <<call, upload, data, kwargs, raw_id, file, part_size, size, fobj, chunk, part_ids, result, ownOpen>>

\* Lines 326 and 234-241: add_upload_part coerces the chunk and issues the
\* add-part request.
MU_AddPartSend ==
    /\ pc = "addpart"
    /\ \E a \in ChunkArgs(chunk, fobj.off + fobj.pos - Len(chunk.body)) :
         LET c == CoerceFile(a)
         IN  IF c.ok
             THEN /\ trace' = Append(trace, ReqPart(PartData(c.fobj)))
                  /\ ownOpen' = IF c.own THEN ownOpen + 1 ELSE ownOpen
                  /\ pc' = "part_wait"
                  /\ UNCHANGED result
             ELSE /\ pc' = "raised"
                  /\ result' = Raise(c.err)
                  /\ UNCHANGED <<trace, ownOpen>>
    /\ UNCHANGED <<call, upload, data, kwargs, raw_id, file, part_size, size, fobj, chunk, part_ids>>

\* Mutant of PartReply: a failed add-part request is sent again.
PartReply_Retry ==
    /\ pc = "part_wait"
    /\ \/ \E e \in TransportErrors :
            /\ trace' = Append(trace, RespFail("part", e))
            /\ pc' = "addpart"
            /\ UNCHANGED <<part_ids, result>>
       \/ \E id \in 1..MaxId :
            /\ trace' = Append(trace, RespPart(TRUE, id))
            /\ part_ids' = Append(part_ids, id)
            /\ pc' = "read"
            /\ UNCHANGED result
    /\ UNCHANGED <<call, upload, data, kwargs, raw_id, file, part_size, size, fobj, chunk, ownOpen>>

\* Lines 238-242 and 327: the transport answers the add-part request, or
\* raises; the part's ID is appended.
PartReply ==
    /\ pc = "part_wait"
    /\ \/ \E e \in TransportErrors :
            /\ trace' = Append(trace, RespFail("part", e))
            /\ pc' = "raised"
            /\ result' = Raise(e)
            /\ UNCHANGED part_ids
       \/ \E id \in 1..MaxId :
            /\ trace' = Append(trace, RespPart(TRUE, id))
            /\ part_ids' = Collect(part_ids, id)
            /\ pc' = "read"
            /\ UNCHANGED result
       \/ /\ trace' = Append(trace, RespPart(FALSE, 0))
          /\ pc' = "raised"
          /\ result' = Raise("KeyError")
          /\ UNCHANGED part_ids
    /\ UNCHANGED <<call, upload, data, kwargs, raw_id, file, part_size, size, fobj, chunk, ownOpen>>

\* Lines 330-334 and 259-266: the complete request is issued.
MU_CompleteSend ==
    /\ pc = "complete"
    /\ trace' = Append(trace, ReqComplete(CompleteBody(part_ids)))
    /\ pc' = "complete_wait"
    /\ UNCHANGED <<call, upload, data, kwargs, raw_id, file, part_size, size, fobj, chunk, part_ids, result, ownOpen>>

\* Mutant of UploadFile: the file key is read with d["file"].
UploadFileKeyed(r) ==
    IF ~r.wellformed \/ r.file.shape \in {"absent", "malformed"}
    THEN [ok |-> FALSE, err |-> "KeyError"]
    ELSE IF r.file.shape \in {"null", "empty"}
    THEN [ok |-> TRUE, file |-> [shape |-> "None", id |-> 0]]
    ELSE [ok |-> TRUE, file |-> r.file]

\* Mutant of UploadFile: a file object that lacks keys is let through.
UploadFileLenient(r) ==
    IF ~r.wellformed THEN [ok |-> FALSE, err |-> "KeyError"]
    ELSE IF r.file.shape \in {"absent", "null", "empty"}
    THEN [ok |-> TRUE, file |-> [shape |-> "None", id |-> 0]]
    ELSE [ok |-> TRUE, file |-> r.file]

\* Upload.from_dict line 71, File.from_dict: the `file` attribute of the
\* decoded upload, or the error raised.
UploadFile(r) ==
    IF ~r.wellformed THEN [ok |-> FALSE, err |-> "KeyError"]
    ELSE IF r.file.shape \in {"absent", "null", "empty"}
    THEN [ok |-> TRUE, file |-> [shape |-> "None", id |-> 0]]
    ELSE IF r.file.shape = "malformed" THEN [ok |-> FALSE, err |-> "KeyError"]
    ELSE [ok |-> TRUE, file |-> r.file]

\* Mutant of Unwrap: the file attribute is returned unchecked.
UnwrapUnchecked(f) == [kind |-> "file", file |-> f]

\* Lines 337-341: the File returned, or the RuntimeError raised.
Unwrap(f) ==
    IF f.shape = "None" THEN Raise("RuntimeError") ELSE [kind |-> "file", file |-> f]

\* Mutant of CompleteReply: a failed complete request is sent again.
CompleteReply_Retry ==
    /\ pc = "complete_wait"
    /\ \/ \E e \in TransportErrors :
            /\ trace' = Append(trace, RespFail("complete", e))
            /\ pc' = "complete"
            /\ UNCHANGED result
       \/ \E fid \in 1..MaxId :
            /\ trace' = Append(trace, RespUpload("complete", TRUE, "valid", fid))
            /\ result' = [kind |-> "file", file |-> [shape |-> "valid", id |-> fid]]
            /\ pc' = "done"
    /\ UNCHANGED <<call, upload, data, kwargs, raw_id, file, part_size, size, fobj, chunk, part_ids, ownOpen>>

\* Lines 263-267 and 337-341: the transport answers the complete request,
\* or raises; the nested file is unwrapped.
CompleteReply ==
    /\ pc = "complete_wait"
    /\ \/ \E e \in TransportErrors :
            /\ trace' = Append(trace, RespFail("complete", e))
            /\ pc' = "raised"
            /\ result' = Raise(e)
       \/ \E wf \in BOOLEAN, fs \in FileShapes, fid \in 1..MaxId :
            LET r == RespUpload("complete", wf, fs, IF fs = "valid" THEN fid ELSE 0)
                u == UploadFile(r)
            IN  /\ trace' = Append(trace, r)
                /\ result' = IF u.ok THEN Unwrap(u.file) ELSE Raise(u.err)
                /\ pc' = IF result'.kind = "file" THEN "done" ELSE "raised"
    /\ UNCHANGED <<call, upload, data, kwargs, raw_id, file, part_size, size, fobj, chunk, part_ids, ownOpen>>

\* ---------------------------------------------------- add_upload_part
\* Lines 234-241, called by the caller: coerce data, issue the request.
AP_Send ==
    /\ call = "add_upload_part"
    /\ pc = "start"
    /\ LET c == CoerceFile(file)
       IN  IF c.ok
           THEN /\ fobj' = c.fobj
                /\ trace' = Append(trace, ReqPart(PartData(c.fobj)))
                /\ ownOpen' = IF c.own THEN ownOpen + 1 ELSE ownOpen
                /\ pc' = "ap_wait"
                /\ UNCHANGED result
           ELSE /\ pc' = "raised"
                /\ result' = Raise(c.err)
                /\ UNCHANGED <<fobj, trace, ownOpen>>
    /\ UNCHANGED <<call, upload, data, kwargs, raw_id, file, part_size, size, chunk, part_ids>>

\* Lines 238-242: the transport answers, or raises.
AP_Reply ==
    /\ pc = "ap_wait"
    /\ \/ \E e \in TransportErrors :
            /\ trace' = Append(trace, RespFail("part", e))
            /\ pc' = "raised"
            /\ result' = Raise(e)
       \/ \E id \in 1..MaxId :
            /\ ProviderAccepts
            /\ trace' = Append(trace, RespPart(TRUE, id))
            /\ pc' = "done"
            /\ result' = [kind |-> "part", id |-> id]
       \/ /\ ProviderAccepts
          /\ trace' = Append(trace, RespPart(FALSE, 0))
          /\ pc' = "raised"
          /\ result' = Raise("KeyError")
    /\ UNCHANGED <<call, upload, data, kwargs, raw_id, file, part_size, size, fobj, chunk, part_ids, ownOpen>>

\* Upload.from_dict (lines 59-73): the Upload returned, or the error raised.
DecodeUpload(r) ==
    LET u == UploadFile(r)
    IN  IF u.ok
        THEN [kind |-> "upload", status |-> r.status, file |-> u.file]
        ELSE Raise(u.err)

\* ---------------------------------------------------- complete_upload
\* Mutant of CU_Send: a terminal upload is refused without a request.
CU_Send_Checked ==
    /\ call = "complete_upload"
    /\ pc = "start"
    /\ IF upload.status \in TerminalStatus
       THEN /\ pc' = "raised"
            /\ result' = Raise("ValueError")
            /\ UNCHANGED trace
       ELSE /\ trace' = Append(trace, ReqComplete(part_ids))
            /\ pc' = "cu_wait"
            /\ UNCHANGED result
    /\ UNCHANGED <<call, upload, data, kwargs, raw_id, file, part_size, size, fobj, chunk, part_ids, ownOpen>>

\* Lines 259-266, called by the caller: the complete request is issued.
CU_Send ==
    /\ call = "complete_upload"
    /\ pc = "start"
    /\ trace' = Append(trace, ReqComplete(CompleteBody(part_ids)))
    /\ pc' = "cu_wait"
    /\ UNCHANGED <<call, upload, data, kwargs, raw_id, file, part_size, size, fobj, chunk, part_ids, result, ownOpen>>

\* Lines 263-267: the transport answers, or raises.
CU_Reply ==
    /\ pc = "cu_wait"
    /\ \/ \E e \in TransportErrors :
            /\ trace' = Append(trace, RespFail("complete", e))
            /\ pc' = "raised"
            /\ result' = Raise(e)
       \/ \E wf \in BOOLEAN, fs \in FileShapes, fid \in 1..MaxId :
            LET r == RespUpload("complete", wf, fs, IF fs = "valid" THEN fid ELSE 0)
            IN  /\ ProviderAccepts
                /\ trace' = Append(trace, r)
                /\ result' = DecodeUpload(r)
                /\ pc' = IF result'.kind = "upload" THEN "done" ELSE "raised"
    /\ UNCHANGED <<call, upload, data, kwargs, raw_id, file, part_size, size, fobj, chunk, part_ids, ownOpen>>

\* ------------------------------------------------------ cancel_upload
\* Lines 273-275: the cancel request is issued.
XU_Send ==
    /\ call = "cancel_upload"
    /\ pc = "start"
    /\ trace' = Append(trace, ReqCancel)
    /\ pc' = "xu_wait"
    /\ UNCHANGED <<call, upload, data, kwargs, raw_id, file, part_size, size, fobj, chunk, part_ids, result, ownOpen>>

\* Lines 273-276: the transport answers, or raises.
XU_Reply ==
    /\ pc = "xu_wait"
    /\ \/ \E e \in TransportErrors :
            /\ trace' = Append(trace, RespFail("cancel", e))
            /\ pc' = "raised"
            /\ result' = Raise(e)
       \/ \E wf \in BOOLEAN, fs \in CancelFileShapes :
            LET r == RespUpload("cancel", wf, fs, 0)
            IN  /\ ProviderAccepts
                /\ trace' = Append(trace, r)
                /\ result' = DecodeUpload(r)
                /\ pc' = IF result'.kind = "upload" THEN "done" ELSE "raised"
    /\ UNCHANGED <<call, upload, data, kwargs, raw_id, file, part_size, size, fobj, chunk, part_ids, ownOpen>>

Next ==
    \/ MU_Begin
    \/ MU_CreateSend
    \/ CreateReply
    \/ MU_ReadChunk
    \/ MU_AddPartSend
    \/ PartReply
    \/ MU_CompleteSend
    \/ CompleteReply
    \/ AP_Send
    \/ AP_Reply
    \/ CU_Send
    \/ CU_Reply
    \/ XU_Send
    \/ XU_Reply

Spec == Init /\ [][Next]_vars

\* =====================================================================
\* Properties
\* =====================================================================
Idx == DOMAIN trace
IsReq(i, o) == trace[i].ev = "req" /\ trace[i].op = o
IsResp(i, o) == trace[i].ev = "resp" /\ trace[i].op = o
\* A request answered with a usable object.
IsOk(i, o) == IsResp(i, o) /\ trace[i].ok /\ trace[i].wellformed
IsFail(i) == trace[i].ev = "resp" /\ ~trace[i].ok
PartReqIdx == {i \in Idx : IsReq(i, "part")}
CompleteReqIdx == {i \in Idx : IsReq(i, "complete")}
\* The add-part requests, in the order issued.
PartReqs == SelectSeq(trace, LAMBDA e : e.ev = "req" /\ e.op = "part")
\* The IDs the transport returned for add-part requests before event i, in
\* the order returned.
ReturnedBefore(i) ==
    LET s == SelectSeq(SubSeq(trace, 1, i - 1),
                       LAMBDA e : e.ev = "resp" /\ e.op = "part" /\ e.ok /\ e.wellformed)
    IN  [k \in 1..Len(s) |-> s[k].id]
\* Requests issued and not yet answered after the first k events.
InFlight(k) ==
    Cardinality({i \in 1..k : trace[i].ev = "req"})
        - Cardinality({i \in 1..k : trace[i].ev = "resp"})
IsMU == call = "multipart_upload"

\* C1: in multipart_upload the create request is issued and answered before
\* the first add-part request, every add-part request is issued and answered
\* before the complete request, and no add-part request is issued before
\* create or after complete.
C1_CreateThenPartsThenComplete ==
    IsMU =>
      /\ \A i \in PartReqIdx :
           /\ \E j, k \in 1..(i - 1) : j < k /\ IsReq(j, "create") /\ IsOk(k, "create")
           /\ \A m \in 1..(i - 1) : ~IsReq(m, "complete")
      /\ \A i \in CompleteReqIdx :
           /\ \E j, k \in 1..(i - 1) : j < k /\ IsReq(j, "create") /\ IsOk(k, "create")
           /\ \A j \in 1..(i - 1) :
                IsReq(j, "part") => \E k \in (j + 1)..(i - 1) : IsOk(k, "part")
           /\ \A m \in (i + 1)..Len(trace) : ~IsReq(m, "part")

\* C1 witness: a complete request issued after two answered add-part requests.
C1_Witness ==
    /\ IsMU
    /\ CompleteReqIdx # {}
    /\ Cardinality(PartReqIdx) >= 2

\* C2: the part-ID list of the complete request is exactly the sequence of
\* IDs the add-part calls returned, in call order, one per add-part request.
C2_PartIdsInCallOrder ==
    IsMU =>
      \A i \in CompleteReqIdx :
        /\ trace[i].part_ids = ReturnedBefore(i)
        /\ Len(trace[i].part_ids) = Cardinality({j \in PartReqIdx : j < i})

\* C2 witness: a complete request carrying two different IDs, the larger first.
C2_Witness ==
    /\ IsMU
    /\ \E i \in CompleteReqIdx :
         /\ Len(trace[i].part_ids) >= 2
         /\ trace[i].part_ids[1] > trace[i].part_ids[2]

Remaining(f) == SubSeq(Content(f), f.pos + 1, f.len)
\* Errors that do not come from a check of the caller's data: the
\* transport's, and those of decoding its answers.
AnswerErrors == TransportErrors \cup {"KeyError", "RuntimeError"}

StreamBytes == IF file.kind = "handle_fd" THEN Remaining(file) ELSE Content(file)
CeilDiv(n, p) == (n + p - 1) \div p

C6_TransportFailureAborts ==
    IsMU =>
      \A i \in Idx :
        IsFail(i) =>
          /\ i = Len(trace)
          /\ pc = "raised"
          /\ result = Raise(trace[i].err)
          /\ trace[i].err \in TransportErrors

\* C6 witness: an add-part request fails after another was answered.
C6_Witness ==
    /\ IsMU
    /\ Len(trace) > 0
    /\ IsFail(Len(trace)) /\ trace[Len(trace)].op = "part"
    /\ \E j \in Idx : IsOk(j, "part")
    /\ part_ids # <<>>

\* C7: when the complete request is answered with an upload that has no
\* nested file (key absent, null or an empty object), multipart_upload
\* raises RuntimeError and returns no File.
C7_NoFileIsFatal ==
    \A i \in Idx :
      (IsMU /\ IsOk(i, "complete")
            /\ trace[i].file.shape \in {"absent", "null", "empty"}) =>
        /\ pc = "raised"
        /\ result = Raise("RuntimeError")
        /\ i = Len(trace)

\* C7 witness: a complete request answered with an empty file object.
C7_Witness ==
    /\ IsMU /\ Len(trace) > 0
    /\ IsOk(Len(trace), "complete")
    /\ trace[Len(trace)].file.shape = "empty"
    /\ part_ids # <<>>

\* Sources that yield no bytes: a value of no supported type, and a handle
\* whose read() returns str.
Unreadable == TextKinds \cup {"untyped"}

\* C8: an unreadable or untyped source is rejected with an error of the
\* coordinator before any transport request is issued.
C8_MisuseRejectedBeforeRequest ==
    (call \in {"multipart_upload", "add_upload_part"} /\ file.kind \in Unreadable) =>
      /\ \A i \in Idx : trace[i].ev # "req"
      /\ pc \in {"done", "raised"} => result = Raise("TypeError")

\* C9: multipart_upload returns a File only when the create request, every
\* add-part request and the complete request were all answered, and the File
\* is the nested file of the complete answer; every other finished call has
\* raised and returned nothing.
C9_AllOrNothing ==
    IsMU =>
      /\ result.kind \in {"none", "file", "raise"}
      /\ result.kind = "none" <=> pc \notin {"done", "raised"}
      /\ result.kind = "raise" <=> pc = "raised"
      /\ result.kind = "file" =>
           /\ pc = "done"
           /\ \E i \in Idx : IsOk(i, "create")
           /\ \A i \in Idx : trace[i].ev = "resp" => (trace[i].ok /\ trace[i].wellformed)
           /\ \A i \in Idx : trace[i].ev = "req" =>
                \E k \in (i + 1)..Len(trace) : IsOk(k, trace[i].op)
           /\ IsOk(Len(trace), "complete")
           /\ trace[Len(trace)].file.shape = "valid"
           /\ result.file = trace[Len(trace)].file

\* C9 witness: a File returned after two parts.
C9_Witness ==
    /\ IsMU
    /\ result.kind = "file"
    /\ Len(part_ids) = 2
    /\ result.file.id = MaxId

\* C10: at most one request is in flight at any time, and the coordinator
\* reads a chunk and issues a request only when none is; each chunk read is
\* sent in one request before the next read.
C10_OneRequestInFlight ==
    IsMU =>
      /\ \A k \in 0..Len(trace) : InFlight(k) \in {0, 1}
      /\ \A i \in Idx : trace[i].ev \in {"req", "read"} => InFlight(i - 1) = 0
      /\ \A i, j \in Idx :
           (/\ i < j /\ trace[i].ev = "read" /\ trace[j].ev = "read"
            /\ \A m \in (i + 1)..(j - 1) : trace[m].ev # "read") =>
             Cardinality({m \in (i + 1)..(j - 1) : IsReq(m, "part")}) = 1

\* C10 witness: a second add-part request in flight, the first answered.
C10_Witness ==
    /\ IsMU
    /\ pc = "part_wait"
    /\ InFlight(Len(trace)) = 1
    /\ Cardinality(PartReqIdx) = 2

CancelReqIdx == {i \in Idx : IsReq(i, "cancel")}
ReqIdx == {i \in Idx : trace[i].ev = "req"}

\* C11: an upload driven by multipart_upload is ended at most once: no
\* execution issues a second complete request or any cancel request, and a
\* call that returns has issued exactly one complete request, answered.
C11_TerminalOnce ==
    IsMU =>
      /\ Cardinality(CompleteReqIdx) <= 1
      /\ CancelReqIdx = {}
      /\ pc = "done" =>
           /\ Cardinality(CompleteReqIdx) = 1
           /\ \A i \in CompleteReqIdx : i = Len(trace) - 1 /\ IsOk(Len(trace), "complete")

\* C11 witness: a call that returned after one part and one complete request.
C11_Witness ==
    /\ IsMU /\ pc = "done"
    /\ Cardinality(CompleteReqIdx) = 1
    /\ Cardinality(PartReqIdx) = 1

\* The way _infer_size is to measure each kind of source, by priority.
SizeMethod(k) ==
    IF k \in PathKinds THEN "stat"
    ELSE IF k = "bytes" THEN "len"
    ELSE IF k \in {"handle_fd", "text_fd"} THEN "fstat"
    ELSE "read"
\* What each method finds: the size of the file, the length of the bytes,
\* the size of the file behind the descriptor, the units read() returns.
SizeMeasured(f) == IF SizeMethod(f.kind) = "read" THEN Len(Remaining(f)) ELSE f.len

\* C12: multipart_upload measures the source once, before the create request:
\* a path by file-system stat, bytes by their length, a handle with a usable
\* descriptor by descriptor stat, and only another handle by reading it; the
\* create request declares the size so found.
C12_SizeBeforeCreate ==
    IsMU =>
      /\ Cardinality({j \in Idx : trace[j].ev = "infer"}) <= 1
      /\ \A j \in Idx : trace[j].ev = "infer" =>
           j = 1 /\ trace[j].op = SizeMethod(file.kind)
      /\ \A i \in Idx : IsReq(i, "create") =>
           /\ i = 2
           /\ trace[1].ev = "infer"
           /\ trace[i].bytes = trace[1].size
           /\ trace[i].bytes = SizeMeasured(file)

\* C12 witness: a handle without a descriptor, measured by reading it.
C12_Witness ==
    /\ IsMU /\ file.kind = "handle_nofd" /\ file.len = MaxLen
    /\ \E i \in Idx : IsReq(i, "create") /\ trace[i].bytes = MaxLen
    /\ trace[1].op = "read"

\* C13: complete_upload sends the list of part IDs it is given as it is: same
\* length, same IDs, same order, whatever the order the parts were added in.
C13_CompleteSendsIdsUnchanged ==
    call = "complete_upload" =>
      /\ \A i \in CompleteReqIdx : i = 1 /\ trace[i].part_ids = part_ids
      /\ pc # "start" => CompleteReqIdx = {1}

\* C13 witness: a list that is neither ascending nor free of repeats is sent.
C13_Witness ==
    /\ call = "complete_upload"
    /\ CompleteReqIdx # {}
    /\ Len(part_ids) >= 3
    /\ part_ids[1] > part_ids[2]
    /\ part_ids[1] = part_ids[3]

\* C14: cancel_upload on an upload with no parts issues exactly one cancel
\* request, and returns the answered upload: cancelled, and with no file.
C14_CancelEmptyUpload ==
    (call = "cancel_upload" /\ upload.parts = 0) =>
      /\ pc # "start" => (ReqIdx = {1} /\ CancelReqIdx = {1})
      /\ \A i \in Idx : IsOk(i, "cancel") =>
           /\ pc = "done"
           /\ result.kind = "upload"
           /\ result.status = "cancelled"
           /\ result.file.shape = "None"
      /\ pc = "done" => IsOk(Len(trace), "cancel")

\* C14 witness: the upload returned by a cancel of a pending upload with no
\* parts.
C14_Witness ==
    /\ call = "cancel_upload"
    /\ upload = [status |-> "pending", parts |-> 0]
    /\ pc = "done"
    /\ trace[2].file.shape = "absent"

\* The data argument of add_upload_part is one _coerce_file accepts.
ArgAccepted == call = "add_upload_part" => CoerceFile(file).ok
OpOf(c) ==
    IF c = "add_upload_part" THEN "part"
    ELSE IF c = "complete_upload" THEN "complete"
    ELSE "cancel"

\* C15: add_upload_part, complete_upload and cancel_upload on an upload that
\* is already completed or cancelled still issue their request, and fail only
\* with the error the transport raises.
C15_NoLocalUploadState ==
    (call \in DirectCalls /\ upload.status \in TerminalStatus /\ ArgAccepted) =>
      /\ pc # "start" => (ReqIdx = {1} /\ IsReq(1, OpOf(call)))
      /\ pc # "done"
      /\ pc = "raised" =>
           /\ Len(trace) = 2
           /\ IsFail(2)
           /\ trace[2].err \in TransportErrors
           /\ result = Raise(trace[2].err)

\* C15 witness: completing a cancelled upload fails with the transport's
\* error, after the request.
C15_Witness ==
    /\ call = "complete_upload"
    /\ upload.status = "cancelled"
    /\ pc = "raised"
    /\ IsReq(1, "complete")

(***************************************************************************)
(* Model of the stream event decoder of                                    *)
(* merlin/api/responses/streaming_events.py.                               *)
(*                                                                         *)
(* A JSON value is a record of its kind k and its text v; a raw event is a *)
(* function from the keys it has to their values.  None stands for both a  *)
(* JSON null and Python's None, which are one object.                      *)
(***************************************************************************)
JNull == [k |-> "null", v |-> "None"]
JBool(b) == [k |-> "bool", v |-> b]
JInt(n) == [k |-> "int", v |-> n]
JStr(t) == [k |-> "str", v |-> t]
JList == [k |-> "list", v |-> "[]"]
JObject == [k |-> "object", v |-> "{}"]
None == JNull

RESPONSE_CREATED == "response.created"
RESPONSE_COMPLETED == "response.completed"
RESPONSE_FAILED == "response.failed"
RESPONSE_INCOMPLETE == "response.incomplete"
OUTPUT_TEXT_DELTA == "response.output_text.delta"
ERROR == "error"
EventTypes ==
    { RESPONSE_CREATED, "response.in_progress", RESPONSE_COMPLETED,
      RESPONSE_FAILED, RESPONSE_INCOMPLETE, "response.queued",
      "response.output_item.added", "response.output_item.done",
      "response.content_part.added", "response.content_part.done",
      OUTPUT_TEXT_DELTA, "response.output_text.done",
      "response.output_text.annotation.added",
      "response.refusal.delta", "response.refusal.done",
      "response.function_call_arguments.delta",
      "response.function_call_arguments.done",
      "response.file_search_call.in_progress",
      "response.file_search_call.searching",
      "response.file_search_call.completed",
      "response.web_search_call.in_progress",
      "response.web_search_call.searching",
      "response.web_search_call.completed",
      "response.reasoning_summary_part.added",
      "response.reasoning_summary_part.done",
      "response.reasoning_summary_text.delta",
      "response.reasoning_summary_text.done",
      "response.reasoning_text.delta", "response.reasoning_text.done",
      "response.image_generation_call.completed",
      "response.image_generation_call.generating",
      "response.image_generation_call.in_progress",
      "response.image_generation_call.partial_image",
      "response.mcp_call_arguments.delta", "response.mcp_call_arguments.done",
      "response.mcp_call.completed", "response.mcp_call.failed",
      "response.mcp_call.in_progress",
      "response.mcp_list_tools.completed", "response.mcp_list_tools.failed",
      "response.mcp_list_tools.in_progress",
      "response.code_interpreter_call.in_progress",
      "response.code_interpreter_call.interpreting",
      "response.code_interpreter_call.completed",
      "response.code_interpreter_call_code.delta",
      "response.code_interpreter_call_code.done",
      "response.custom_tool_call_input.delta",
      "response.custom_tool_call_input.done",
      ERROR }

GetOrEmpty(d, key) == IF key \in DOMAIN d THEN d[key] ELSE JStr("")
\* data.get(key): the value under the key, None when the key is missing.
Get(d, key) == IF key \in DOMAIN d THEN d[key] ELSE None

\* str(x): a string as it is, any other value by its text.
Str(x) == x.v

\* data.get("type", ""): the default is used only when the key is missing.
GetType(d) == IF "type" \in DOMAIN d THEN d["type"] ELSE JStr("")

\* isinstance(x, int): bool is a subclass of int.
IsInstanceInt(x) == x.k \in {"int", "bool"}
IsInstanceMapping(x) == x.k = "object"
IsInstanceList(x) == x.k = "list"

\* int(x): an int as it is, True and False as 1 and 0, a string of digits as
\* its number; ValueError for another string, TypeError for the rest.
IntOf(x) ==
    IF x.k = "int" THEN [ok |-> TRUE, val |-> x]
    ELSE IF x.k = "bool" THEN [ok |-> TRUE, val |-> JInt(IF x.v = "True" THEN "1" ELSE "0")]
    ELSE IF x.k = "str" THEN
        IF x.v \in {"0", "1", "4"} THEN [ok |-> TRUE, val |-> JInt(x.v)]
        ELSE [ok |-> FALSE, err |-> "ValueError"]
    ELSE [ok |-> FALSE, err |-> "TypeError"]

SeqNumUnchecked(d) == IntOf(Get(d, "sequence_number"))
\* sequence_number = int(seq) if isinstance(seq, int) else None
SeqNum(d) ==
    LET seq == Get(d, "sequence_number")
    IN  IF IsInstanceInt(seq) THEN IntOf(seq) ELSE [ok |-> TRUE, val |-> None]

\* response / annotation: kept only when a Mapping.
MappingOrNone(x) == IF IsInstanceMapping(x) THEN x ELSE None
\* logprobs: list(logprobs), an equal list, only when a list.
ListOrNone(x) == IF IsInstanceList(x) THEN [k |-> "list", v |-> x.v] ELSE None

ErrorFieldUngated(d, t, key) == Get(d, key)
ErrorFieldStrOnly(d, t, key) ==
    IF t = ERROR /\ Get(d, key).k = "str" THEN Get(d, key) ELSE None
\* data.get(key) if event_type == EventTypes.ERROR else None
ErrorField(d, t, key) == IF t = ERROR THEN Get(d, key) ELSE None

RecognisedKeys ==
    { "type", "sequence_number", "response", "item_id", "output_index",
      "content_index", "summary_index", "delta", "text", "refusal",
      "arguments", "code", "partial_image_b64", "partial_image_index",
      "annotation", "annotation_index", "logprobs", "message", "param" }
RawOfRecognised(d) == [key \in DOMAIN d \cap RecognisedKeys |-> d[key]]
\* raw = dict(data): a new dict with every key of data and its value.
RawOf(d) == [key \in DOMAIN d |-> d[key]]
RawIdentityShared == "input"
\* dict(data) makes an object of its own, never the input object itself.
RawIdentity == "copy"

\* StreamEvent.from_dict
FromDict(d) ==
    LET event_type == Str(GetType(d))
        sn == SeqNum(d)
    IN  IF ~sn.ok THEN Raise(sn.err)
        ELSE [ kind |-> "event",
               type |-> event_type,
               sequence_number |-> sn.val,
               response |-> MappingOrNone(Get(d, "response")),
               item_id |-> Get(d, "item_id"),
               output_index |-> Get(d, "output_index"),
               content_index |-> Get(d, "content_index"),
               summary_index |-> Get(d, "summary_index"),
               delta |-> Get(d, "delta"),
               text |-> Get(d, "text"),
               refusal |-> Get(d, "refusal"),
               arguments |-> Get(d, "arguments"),
               code |-> Get(d, "code"),
               partial_image_b64 |-> Get(d, "partial_image_b64"),
               partial_image_index |-> Get(d, "partial_image_index"),
               annotation |-> MappingOrNone(Get(d, "annotation")),
               annotation_index |-> Get(d, "annotation_index"),
               logprobs |-> ListOrNone(Get(d, "logprobs")),
               error_code |-> ErrorField(d, event_type, "code"),
               error_message |-> ErrorField(d, event_type, "message"),
               error_param |-> ErrorField(d, event_type, "param"),
               raw |-> RawOf(d) ]

\* StreamEvent.is_error
IsError(e) == e.type = ERROR

IsTerminalLifecycle(e) ==
    e.type \in {RESPONSE_COMPLETED, RESPONSE_FAILED, RESPONSE_INCOMPLETE}
\* StreamEvent.is_terminal
IsTerminal(e) ==
    e.type \in {RESPONSE_COMPLETED, RESPONSE_FAILED, RESPONSE_INCOMPLETE, ERROR}

\* The raw events decoded: every registered discriminator and two that are
\* not, alone; a sample of types with one more key of any name and any kind
\* of value; every combination of code, message and param on an error event
\* and on another event; objects without a string type; the two scenarios.
Values ==
    { JNull, JBool("True"), JBool("False"), JInt("0"), JInt("4"),
      JStr(""), JStr("Hello"), JList, JObject }
UnknownTypes == {"response.unknown", ""}
TypeSample == {ERROR, RESPONSE_COMPLETED, OUTPUT_TEXT_DELTA, "response.unknown"}
OtherKeys == (RecognisedKeys \ {"type"}) \cup {"extra"}
ErrorKeys == {"code", "message", "param"}
Missing == [k |-> "missing", v |-> ""]
ErrorValues == {Missing, JNull, JStr("rate_limited"), JInt("4")}
Present(f) == [key \in {x \in DOMAIN f : f[x] # Missing} |-> f[key]]
TypeOnly == {("type" :> JStr(t)) : t \in EventTypes \cup UnknownTypes}
OneField ==
    {("type" :> JStr(t)) @@ (key :> val) : t \in TypeSample, key \in OtherKeys, val \in Values}
ErrorFields ==
    {("type" :> JStr(t)) @@ Present(f) : t \in {ERROR, RESPONSE_FAILED}, f \in [ErrorKeys -> ErrorValues]}
NoStringType ==
    {("type" :> val) : val \in {x \in Values : x.k # "str"}}
      \cup {(key :> JStr("Hello")) : key \in {"delta", "extra"}}
ScenarioB ==
    ("type" :> JStr(OUTPUT_TEXT_DELTA)) @@ ("delta" :> JStr("Hello"))
      @@ ("item_id" :> JStr("item_1")) @@ ("sequence_number" :> JInt("4"))
ScenarioC ==
    ("type" :> JStr(ERROR)) @@ ("code" :> JStr("rate_limited"))
      @@ ("message" :> JStr("too many requests")) @@ ("param" :> JNull)
RawEvents ==
    TypeOnly \cup OneField \cup ErrorFields \cup NoStringType \cup {ScenarioB, ScenarioC}

DecoderCalls == {"from_dict", "parse_stream_event"}

DecodeInit ==
    /\ call \in DecoderCalls
    /\ data \in RawEvents
    /\ kwargs = NoKwargs
    /\ raw_id = "none"
    /\ upload = NoUpload
    /\ file = NoFile
    /\ part_size = DEFAULT_PART_SIZE
    /\ pc = "start"
    /\ size = 0
    /\ fobj = NoFobj
    /\ chunk = NoChunk
    /\ part_ids = <<>>
    /\ trace = <<>>
    /\ result = NoResult
    /\ ownOpen = 0

\* StreamEvent.from_dict(data): returns the event or raises.
FD_Decode ==
    /\ call = "from_dict"
    /\ pc = "start"
    /\ result' = FromDict(data)
    /\ pc' = IF result'.kind = "event" THEN "done" ELSE "raised"
    /\ raw_id' = IF result'.kind = "event" THEN RawIdentity ELSE raw_id
    /\ UNCHANGED <<call, upload, data, kwargs, file, part_size, size, fobj, chunk, part_ids, trace, ownOpen>>

\* parse_stream_event(data): return StreamEvent.from_dict(data)
PSE_Parse ==
    /\ call = "parse_stream_event"
    /\ pc = "start"
    /\ result' = FromDict(data)
    /\ pc' = IF result'.kind = "event" THEN "done" ELSE "raised"
    /\ raw_id' = IF result'.kind = "event" THEN RawIdentity ELSE raw_id
    /\ UNCHANGED <<call, upload, data, kwargs, file, part_size, size, fobj, chunk, part_ids, trace, ownOpen>>

DecodeNext ==
    \/ FD_Decode
    \/ PSE_Parse

DecodeSpec == DecodeInit /\ [][DecodeNext]_vars

HasStringType(d) == "type" \in DOMAIN d /\ d["type"].k = "str"
Decoded == pc = "done" /\ result.kind = "event"

\* C16: decoding is total: a raw object with a string type is decoded to an
\* event, never to an exception, whatever its other keys and their values.
C16_DecodeTotal ==
    HasStringType(data) =>
      /\ FromDict(data).kind = "event"
      /\ pc # "raised"
      /\ pc = "done" => result.kind = "event"

\* C16 witness: an event whose sequence_number is a string, decoded.
C16_Witness ==
    /\ Decoded
    /\ HasStringType(data)
    /\ "sequence_number" \in DOMAIN data
    /\ data["sequence_number"] = JStr("Hello")

\* C17: the raw field of the decoded event equals the raw object: the same
\* keys with the same values, the unrecognised keys included.
C17_RawPreserved ==
    /\ pc # "raised"
    /\ pc = "done" =>
         /\ result.raw = data
         /\ DOMAIN result.raw = DOMAIN data
         /\ \A key \in DOMAIN data : result.raw[key] = data[key]

\* C17 witness: an event with a key the decoder does not recognise, decoded.
C17_Witness ==
    /\ Decoded
    /\ "extra" \in DOMAIN data
    /\ result.raw["extra"] = JObject

TerminalTypes == {"response.completed", "response.failed", "response.incomplete", "error"}

\* C18: is_terminal is true exactly for the types response.completed,
\* response.failed, response.incomplete and error: false for every other
\* registered discriminator and for an unrecognised type.
C18_TerminalIff ==
    /\ \A t \in EventTypes \cup UnknownTypes :
         IsTerminal([type |-> t]) <=> t \in TerminalTypes
    /\ Decoded =>
         /\ HasStringType(data) => result.type = data["type"].v
         /\ IsTerminal(result) <=> result.type \in TerminalTypes

\* C18 witness: a decoded error event, terminal.
C18_Witness ==
    /\ Decoded
    /\ data = ("type" :> JStr("error"))
    /\ IsTerminal(result)

\* C19: an event whose type is not "error" has no error_code, error_message
\* or error_param, whatever its raw object holds under code, message, param.
C19_ErrorFieldsIsolated ==
    (Decoded /\ result.type # "error") =>
      /\ result.error_code = None
      /\ result.error_message = None
      /\ result.error_param = None

\* C19 witness: a response.failed event with code, message and param set.
C19_Witness ==
    /\ Decoded
    /\ result.type = "response.failed"
    /\ \A key \in ErrorKeys : key \in DOMAIN data /\ data[key] = JStr("rate_limited")
    /\ result.code = JStr("rate_limited")

RawValue(d, key) == IF key \in DOMAIN d /\ d[key] # JNull THEN d[key] ELSE None

\* C20: an event whose type is "error" has the raw code, message and param
\* as error_code, error_message and error_param, each absent when its key is
\* missing or null; is_error and is_terminal are true of it.
C20_ErrorFieldsExposed ==
    (Decoded /\ HasStringType(data) /\ data["type"].v = "error") =>
      /\ result.error_code = RawValue(data, "code")
      /\ result.error_message = RawValue(data, "message")
      /\ result.error_param = RawValue(data, "param")
      /\ IsError(result)
      /\ IsTerminal(result)

\* C20 witness: the error event of the rate-limit scenario, decoded.
C20_Witness ==
    /\ Decoded
    /\ data = ScenarioC
    /\ result.error_code = JStr("rate_limited")
    /\ result.error_message = JStr("too many requests")
    /\ result.error_param = None

(***************************************************************************)
(* A stream of raw events, decoded one at a time by its consumer with      *)
(* parse_stream_event.  Here trace keeps, for each event decoded, the raw  *)
(* object as it was given and what the decoder returned or raised.         *)
(***************************************************************************)
SeqEvent(t, n) == ("type" :> JStr(t)) @@ ("sequence_number" :> n)
\* Events of one stream: numbered 4, 1 and 0, not numbered, and numbered
\* with a bool; two of them terminal.
StreamEvents ==
    { ScenarioB,
      SeqEvent(OUTPUT_TEXT_DELTA, JInt("1")),
      ("type" :> JStr(OUTPUT_TEXT_DELTA)) @@ ("delta" :> JStr("")),
      SeqEvent(RESPONSE_COMPLETED, JInt("0")),
      ScenarioC,
      SeqEvent("response.unknown", JBool("True")) }

EvDecode(d, e) == [ev |-> "decode", raw |-> d, event |-> e]
Decodes == {i \in DOMAIN trace : trace[i].ev = "decode"}

\* What is left of earlier events when the next one is decoded: from_dict is
\* a classmethod of a frozen dataclass and the module holds no variable, so
\* the mutants below are what the decoder does not do.
DecodeCounting(history, d) ==
    LET e == FromDict(d)
    IN  IF e.kind = "event" /\ e.sequence_number = None /\ history # <<>>
        THEN [e EXCEPT !.sequence_number = JInt("1")]
        ELSE e
DecodeOrdered(history, d) ==
    IF \E i \in DOMAIN history :
         history[i].event.kind = "event" /\ IsTerminal(history[i].event)
    THEN Raise("ValueError")
    ELSE FromDict(d)
\* parse_stream_event(data): StreamEvent.from_dict(data), whatever was
\* decoded before.
Decode(history, d) == FromDict(d)

\* The caller changing its object after the call: a key added, a key
\* removed, a value replaced.
Mutations(d) ==
    {d @@ ("added" :> JStr("Hello"))}
      \cup {[x \in DOMAIN d \ {key} |-> d[x]] : key \in DOMAIN d}
      \cup {[d EXCEPT ![key] = JStr("changed")] : key \in DOMAIN d}

StreamInit ==
    /\ call = "parse_stream_event"
    /\ data \in StreamEvents
    /\ kwargs = NoKwargs
    /\ raw_id = "none"
    /\ upload = NoUpload
    /\ file = NoFile
    /\ part_size = DEFAULT_PART_SIZE
    /\ pc = "start"
    /\ size = 0
    /\ fobj = NoFobj
    /\ chunk = NoChunk
    /\ part_ids = <<>>
    /\ trace = <<>>
    /\ result = NoResult
    /\ ownOpen = 0

\* One frame of the stream is decoded.
ST_Decode ==
    /\ pc = "start"
    /\ result' = Decode(trace, data)
    /\ trace' = Append(trace, EvDecode(data, result'))
    /\ pc' = IF result'.kind = "event" THEN "done" ELSE "raised"
    /\ raw_id' = IF result'.kind = "event" THEN RawIdentity ELSE raw_id
    /\ UNCHANGED <<call, upload, data, kwargs, file, part_size, size, fobj, chunk, part_ids, ownOpen>>

\* The caller changes the object it had decoded; an event whose raw field
\* is that very object changes with it.
ST_Mutate ==
    /\ pc = "done"
    /\ data' \in Mutations(data)
    /\ result' = IF raw_id = "input" THEN [result EXCEPT !.raw = data'] ELSE result
    /\ pc' = "mutated"
    /\ UNCHANGED <<call, upload, kwargs, raw_id, file, part_size, size, fobj, chunk, part_ids, trace, ownOpen>>

\* The event is dropped by the consumer and the next frame arrives.
ST_NextFrame ==
    /\ pc \in {"done", "mutated"}
    /\ Len(trace) < MaxEvents
    /\ data' \in StreamEvents
    /\ result' = NoResult
    /\ raw_id' = "none"
    /\ pc' = "start"
    /\ UNCHANGED <<call, upload, kwargs, file, part_size, size, fobj, chunk, part_ids, trace, ownOpen>>

StreamNext ==
    \/ ST_Decode
    \/ ST_Mutate
    \/ ST_NextFrame

StreamSpec == StreamInit /\ [][StreamNext]_vars

OptionalFields ==
    { "sequence_number", "response", "item_id", "output_index",
      "content_index", "summary_index", "delta", "text", "refusal",
      "arguments", "code", "partial_image_b64", "partial_image_index",
      "annotation", "annotation_index", "logprobs",
      "error_code", "error_message", "error_param" }
FieldKey(f) ==
    IF f = "error_code" THEN "code"
    ELSE IF f = "error_message" THEN "message"
    ELSE IF f = "error_param" THEN "param"
    ELSE f

PayloadFields ==
    { "delta", "text", "refusal", "arguments", "code", "partial_image_b64",
      "partial_image_index", "annotation", "annotation_index", "logprobs" }
NoPayloadTypes ==
    { RESPONSE_CREATED, "response.in_progress", RESPONSE_COMPLETED,
      RESPONSE_FAILED, RESPONSE_INCOMPLETE, "response.queued", ERROR }

\* C25: a payload field is populated only on the event types that use it: on
\* a lifecycle or error event, which use none, every payload field is absent
\* even when the raw object has a key of its name (code on an error event).
C25_PayloadFieldsGated ==
    (Decoded /\ result.type \in NoPayloadTypes) =>
      \A f \in PayloadFields : result[f] = None

RECURSIVE SentUnits(_)
\* Units carried by a sequence of add-part requests.
SentUnits(reqs) ==
    IF reqs = <<>> THEN 0 ELSE Len(Head(reqs).data.body) + SentUnits(Tail(reqs))

\* C26: when multipart_upload reaches the complete request, the bytes declared
\* in the create request are the bytes sent in the add-part requests, for a
\* path, for bytes and for a handle at any position, with a descriptor or not.
C26_DeclaredEqualsSent ==
    (IsMU /\ part_size # 0 /\ CompleteReqIdx # {}) =>
      \A i \in Idx : IsReq(i, "create") => trace[i].bytes = SentUnits(PartReqs)

\* The transport answers every request and the call goes on: no step that
\* can be taken is put off for ever.
FairSpec == Spec /\ WF_vars(Next)

Finished == pc \in {"done", "raised"}
ReadIdx == {i \in Idx : trace[i].ev = "read"}

\* How far the chunk loop went by the end of a call of multipart_upload.
LoopBounded ==
    /\ (part_size > 0 /\ file.kind \in ByteKinds) =>
         /\ Len(PartReqs) <= CeilDiv(file.len, part_size)
         /\ Cardinality(ReadIdx) <= CeilDiv(file.len, part_size) + 1
         /\ pc = "done" => trace[CHOOSE i \in ReadIdx : \A j \in ReadIdx : j <= i].got = 0
    /\ part_size = 0 =>
         /\ PartReqs = <<>>
         /\ Cardinality(ReadIdx) <= 1
         /\ \A i \in CompleteReqIdx : trace[i].part_ids = <<>>
         /\ (pc = "done" /\ file.kind \in ByteKinds) => CompleteReqIdx # {}

C28_EmptySource ==
    (IsMU /\ file.kind \in ByteKinds /\ file.len = 0) =>
      /\ \A i \in Idx : IsReq(i, "create") => trace[i].bytes = 0
      /\ PartReqs = <<>>
      /\ \A i \in CompleteReqIdx : trace[i].part_ids = <<>>
      /\ Finished => Cardinality({i \in Idx : IsReq(i, "create")}) = 1
      /\ pc = "done" => Cardinality(CompleteReqIdx) = 1
      /\ Cardinality(ReadIdx) <= 1

\* C28 witness: empty bytes, uploaded: create, one empty read, complete.
C28_Witness ==
    /\ IsMU /\ pc = "done"
    /\ file.kind = "bytes" /\ file.len = 0
    /\ Cardinality(ReadIdx) = 1
    /\ Len(trace) = 6

\* C29: a handle the coordinator opened itself from a path argument is closed
\* when multipart_upload or add_upload_part returns or raises.
C29_OwnHandleClosed ==
    (call \in {"multipart_upload", "add_upload_part"} /\ Finished) => ownOpen = 0

LastDecode == trace[Len(trace)]

Builders == {"create_response", "update_conversation"}

\* The keyword-only parameters of each builder, and those without default.
ParamsOf(c) ==
    IF c = "create_response"
    THEN { "model", "input", "stream", "background", "conversation",
           "previous_response_id", "max_output_tokens", "temperature",
           "top_p", "tools", "tool_choice", "metadata" }
    ELSE {"metadata"}
RequiredOf(c) == IF c = "create_response" THEN {} ELSE {"metadata"}

\* Values given by name (ValueA or None) and by the ** mapping (ValueB).
ValueA == [k |-> "object", v |-> "{a}"]
ValueB == [k |-> "object", v |-> "{b}"]
\* Keys the caller uses: two parameters and a field that is no parameter.
KeySample == {"model", "metadata", "reasoning"}
NamedArgs == UNION {[ks -> {None, ValueA}] : ks \in SUBSET (KeySample \ {"reasoning"})}
SpreadArgs == UNION {[ks -> {ValueB}] : ks \in SUBSET KeySample}

\* Mutant of Bind: a key given twice is taken from the name=value argument.
BindLenient(c, kw) ==
    LET all == kw.named @@ kw.spread
    IN  IF RequiredOf(c) \ DOMAIN all # {} THEN [ok |-> FALSE, err |-> "TypeError"]
        ELSE [ ok |-> TRUE,
               params |-> [key \in ParamsOf(c) |-> IF key \in DOMAIN all THEN all[key] ELSE None],
               extra |-> [key \in DOMAIN all \ ParamsOf(c) |-> all[key]] ]

\* The call, as Python binds it to `*, name=..., **extra`: a key given both
\* by name and in the ** mapping is a TypeError, as is a missing required
\* parameter; a key that names a parameter is bound to it wherever it was
\* given, and extra holds the keys that name none.
Bind(c, kw) ==
    LET all == kw.named @@ kw.spread
    IN  IF DOMAIN kw.named \cap DOMAIN kw.spread # {} THEN [ok |-> FALSE, err |-> "TypeError"]
        ELSE IF RequiredOf(c) \ DOMAIN all # {} THEN [ok |-> FALSE, err |-> "TypeError"]
        ELSE [ ok |-> TRUE,
               params |-> [key \in ParamsOf(c) |-> IF key \in DOMAIN all THEN all[key] ELSE None],
               extra |-> [key \in DOMAIN all \ ParamsOf(c) |-> all[key]] ]

\* payload.update(extra): every key of extra is set, over what was there.
Update(payload, extra) == extra @@ payload

\* dict(metadata): a copy of a mapping, TypeError for None.
DictOf(x) == IF x.k = "object" THEN [ok |-> TRUE, val |-> x] ELSE [ok |-> FALSE, err |-> "TypeError"]

\* The payload built from the bound call.  create_response sets each
\* parameter that is not None; update_conversation sets dict(metadata).
Payload(c, b) ==
    IF c = "create_response"
    THEN [ ok |-> TRUE,
           val |-> Update([key \in {x \in ParamsOf(c) : b.params[x] # None} |-> b.params[key]],
                          b.extra) ]
    ELSE LET m == DictOf(b.params["metadata"])
         IN  IF ~m.ok THEN m
             ELSE [ok |-> TRUE, val |-> Update(("metadata" :> m.val), b.extra)]

ReqBuild(c, body) == [ev |-> "req", op |-> c, json |-> body]
RespBuild(c) == [ev |-> "resp", op |-> c, ok |-> TRUE]

BuildInit ==
    /\ call \in Builders
    /\ kwargs \in [named : NamedArgs, spread : SpreadArgs]
    /\ data = NoData
    /\ raw_id = "none"
    /\ upload = NoUpload
    /\ file = NoFile
    /\ part_size = DEFAULT_PART_SIZE
    /\ pc = "start"
    /\ size = 0
    /\ fobj = NoFobj
    /\ chunk = NoChunk
    /\ part_ids = <<>>
    /\ trace = <<>>
    /\ result = NoResult
    /\ ownOpen = 0

\* The call is bound, the payload built and posted.
B_Send ==
    /\ call \in Builders
    /\ pc = "start"
    /\ LET b == Bind(call, kwargs)
       IN  IF ~b.ok
           THEN /\ pc' = "raised" /\ result' = Raise(b.err) /\ UNCHANGED trace
           ELSE LET body == Payload(call, b)
                IN  IF ~body.ok
                    THEN /\ pc' = "raised" /\ result' = Raise(body.err) /\ UNCHANGED trace
                    ELSE /\ pc' = "b_wait"
                         /\ trace' = Append(trace, ReqBuild(call, body.val))
                         /\ UNCHANGED result
    /\ UNCHANGED <<call, upload, data, kwargs, raw_id, file, part_size, size, fobj, chunk, part_ids, ownOpen>>

\* The transport answers or raises; the answer is wrapped and returned.
B_Reply ==
    /\ pc = "b_wait"
    /\ \/ /\ trace' = Append(trace, RespBuild(call))
          /\ result' = [kind |-> "response"]
          /\ pc' = "done"
       \/ \E e \in TransportErrors :
            /\ trace' = Append(trace, RespFail(call, e))
            /\ result' = Raise(e)
            /\ pc' = "raised"
    /\ UNCHANGED <<call, upload, data, kwargs, raw_id, file, part_size, size, fobj, chunk, part_ids, ownOpen>>

BuildNext ==
    \/ B_Send
    \/ B_Reply

BuildSpec == BuildInit /\ [][BuildNext]_vars

\* Keys the caller gave both by name and in the ** mapping.
Collisions == DOMAIN kwargs.named \cap DOMAIN kwargs.spread
BuildReqs == {i \in DOMAIN trace : trace[i].ev = "req"}

====
